---- MODULE Spec2Model ----
(***************************************************************************)
(* Model of the http-multiplexor server (src/main.go).                     *)
(*                                                                         *)
(* One HTTP handler run ("batch run") per incoming request:                *)
(*   - it takes a slot of the process-wide reqSemaphore (line 40) and      *)
(*     gives it back in a deferred function (line 41);                     *)
(*   - it reads and decodes the body, rejects more than MaxURLs urls;      *)
(*   - it creates urlSemaphore, wg, errChan, finChan, one Job and one      *)
(*     fetchURL goroutine per url and one goroutine that waits for wg and  *)
(*     then sends on finChan;                                              *)
(*   - it selects on errChan and finChan.                                  *)
(* fetchURL takes a slot of urlSemaphore, builds the request, performs the *)
(* call with the request's context, and either sends its error on errChan  *)
(* or writes job.Status and calls wg.Done(); the slot is given back in a   *)
(* deferred function.                                                      *)
(*                                                                         *)
(* errChan and finChan are unbuffered: a send is a rendezvous with the     *)
(* handler's select, so a send with no receiver blocks forever.            *)
(*                                                                         *)
(* The server is built without read or write deadlines (line 98): the      *)
(* handler waits for its client in ioutil.ReadAll and when it writes an    *)
(* answer that does not fit the buffers, for as long as the client keeps   *)
(* the connection open.                                                    *)
(***************************************************************************)
EXTENDS Naturals, Integers, Sequences, FiniteSets, TLC

\* ---------------------------------------------------------------- constants
MaxSimultaneousRequests == 100

MaxURLs == 20

MaxSimultaneousConnectionsPerRequest == 4

\* ------------------------------------------------------------------- bounds
\* Spec: every url list up to this length over URLSet is an input.
MaxLen == 3

\* SpecFan: batches of up to this many urls, more than
\* MaxSimultaneousConnectionsPerRequest.
MaxFan == 5

\* SpecPair: two batches at once, the second of up to this many urls and the
\* first of up to one more.
MaxPair == 1

\* SpecGate: number of requests that are in the server at the same time.
MaxArrivals == 102

\* ------------------------------------------------------------------- inputs
GoodURLs == {"http://a", "http://b"}

BadURLs == {":bad"}

URLSet == GoodURLs \cup BadURLs

NewRequestNeverFails(u) == FALSE

\* http.NewRequest fails on an identifier that does not parse as a URL.
NewRequestFails(u) == u \in BadURLs

\* The status code the remote server answers with for a url, when the call
\* returns a response (res.StatusCode).
RemoteStatus(u) == IF u = "http://a" THEN 200 ELSE 404

RECURSIVE Repeat(_, _)
Repeat(u, n) == IF n = 0 THEN <<>> ELSE <<u>> \o Repeat(u, n - 1)

RECURSIVE SeqsUpTo(_)
SeqsUpTo(n) ==
    IF n = 0 THEN {<<>>}
    ELSE LET S == SeqsUpTo(n - 1)
         IN  S \cup {Append(s, u) : s \in {t \in S : Len(t) = n - 1}, u \in URLSet}

\* A request as its client sends it. kind: what the handler gets from the
\* body: "list" (it decodes to the urls), "badjson" (it does not decode),
\* "readerr" (ioutil.ReadAll returns an error), "closeerr" (the body is longer
\* than MaxBodySize and its remainder cannot be read: r.Body.Close() returns
\* an error), "stall" (the client sends no body and keeps the connection
\* open). reads: the client takes the answer: it reads it, or it closes the
\* connection, which makes the write fail; FALSE for a client that keeps the
\* connection and does not read, while the answer does not fit the write
\* buffers.
ListBody(us) == [kind |-> "list", urls |-> us, reads |-> TRUE]

NoReadBody(us) == [kind |-> "list", urls |-> us, reads |-> FALSE]

OtherBody(k) == [kind |-> k, urls |-> <<>>, reads |-> TRUE]

SmallBodies ==
    {OtherBody(k) : k \in {"readerr", "closeerr", "stall", "badjson"}}
    \cup {ListBody(us) : us \in SeqsUpTo(MaxLen)}
    \cup {NoReadBody(<<u>>) : u \in URLSet}
    \cup {ListBody(Repeat("http://a", MaxURLs + 1))}

\* SpecFan: up to MaxFan times the same well-formed url, or fewer times and
\* then a url that does not parse; a client that sends no body, and one that
\* does not read its answer.
FanBodies ==
    {ListBody(Repeat("http://a", n)) : n \in 0..MaxFan}
    \cup {ListBody(Append(Repeat("http://a", n), ":bad")) : n \in 0..(MaxFan - 2)}
    \cup {OtherBody("stall"), NoReadBody(<<"http://a">>)}

\* SpecPair: as FanBodies, up to m urls.
PairBodies(m) ==
    {ListBody(Repeat("http://a", n)) : n \in 0..m}
    \cup {ListBody(Append(Repeat("http://a", n - 1), ":bad")) : n \in 1..m}

\* -------------------------------------------------------------------- state
VARIABLES
    body,         \* body[r]: the body of request r (input)
    hpc,          \* hpc[r]: position of the handler of request r
    outcome,      \* outcome[r]: what the handler answered: "none", "400", "error", "success"
    result,       \* result[r]: the Job list encoded into the success answer
    reqSemaphore, \* number of elements in the reqSemaphore channel
    acquired,     \* acquired[r]: sends of handler r on reqSemaphore
    released,     \* released[r]: receives of handler r from reqSemaphore
    cancelled,    \* cancelled[r]: r.Context() is done
    jobs,         \* jobs[r]: the Job list of the batch, <<>> before it is built
    jobOf,        \* jobOf[r][i]: index of the Job the i-th fetcher points to
    fpc,          \* fpc[r][i]: position of the i-th fetchURL goroutine
    calls,        \* calls[r][i]: client.Do calls made by the i-th fetcher
    signal,       \* signal[r][i]: what the i-th fetcher has signalled: "none", "done" (wg.Done), "error" (errChan)
    sem,          \* sem[r]: number of elements in the urlSemaphore channel
    wg,           \* wg[r]: the WaitGroup counter
    wpc,          \* wpc[r]: position of the goroutine of lines 79-82
    gWaiting,     \* SpecGate: handlers blocked in the send of line 40
    gRunning,     \* SpecGate: handlers between line 40 and the deferred receive
    gStalled,     \* SpecGate: those of them that wait for their client for ever
    gAdmitted     \* SpecGate: completed sends on reqSemaphore, modulo 2

vars == <<body, hpc, outcome, result, reqSemaphore, acquired, released, cancelled,
          jobs, jobOf, fpc, calls, signal, sem, wg, wpc, gWaiting, gRunning, gStalled,
          gAdmitted>>

gateVars == <<gWaiting, gRunning, gStalled, gAdmitted>>

batchVars == <<jobs, jobOf, fpc, calls, signal, sem, wg, wpc>>

Reqs == DOMAIN body

\* The request ids the specifications draw from.
ReqIds == {1}

Fetchers(r) == DOMAIN fpc[r]

\* The fetcher is between the send on urlSemaphore and the deferred receive.
HoldsSlot(r, i) == fpc[r][i] \in {"do", "call", "wrote", "err", "rel"}

InitWith(bodies) ==
    /\ body \in bodies
    /\ hpc = [r \in DOMAIN body |-> "new"]
    /\ outcome = [r \in DOMAIN body |-> "none"]
    /\ result = [r \in DOMAIN body |-> <<>>]
    /\ reqSemaphore = 0
    /\ acquired = [r \in DOMAIN body |-> 0]
    /\ released = [r \in DOMAIN body |-> 0]
    /\ cancelled = [r \in DOMAIN body |-> FALSE]
    /\ jobs = [r \in DOMAIN body |-> <<>>]
    /\ jobOf = [r \in DOMAIN body |-> <<>>]
    /\ fpc = [r \in DOMAIN body |-> <<>>]
    /\ calls = [r \in DOMAIN body |-> <<>>]
    /\ signal = [r \in DOMAIN body |-> <<>>]
    /\ sem = [r \in DOMAIN body |-> 0]
    /\ wg = [r \in DOMAIN body |-> 0]
    /\ wpc = [r \in DOMAIN body |-> "none"]
    /\ gWaiting = 0
    /\ gRunning = 0
    /\ gStalled = 0
    /\ gAdmitted = 0

Init == InitWith([{1} -> SmallBodies])

InitFan == InitWith([{1} -> FanBodies])

InitPair ==
    InitWith({b \in [{1, 2} -> PairBodies(MaxPair + 1)] : Len(b[2].urls) <= MaxPair})

\* ------------------------------------------------------------------ handler
\* reqSemaphore is a channel of capacity MaxSimultaneousRequests: a send
\* blocks while it is full.
GateHasRoomOffByOne == reqSemaphore <= MaxSimultaneousRequests

GateHasRoom == reqSemaphore < MaxSimultaneousRequests

\* reqSemaphore <- struct{}{}
Acquire(r) ==
    /\ hpc[r] = "new"
    /\ GateHasRoom
    /\ reqSemaphore' = reqSemaphore + 1
    /\ acquired' = [acquired EXCEPT ![r] = @ + 1]
    /\ hpc' = [hpc EXCEPT ![r] = "read"]
    /\ UNCHANGED <<body, outcome, result, released, cancelled>>
    /\ UNCHANGED batchVars
    /\ UNCHANGED gateVars

TooManyWrongLimit(us) == Len(us) > MaxSimultaneousRequests

TooManyOrNone(us) == Len(us) > MaxURLs \/ Len(us) = 0

\* The length check of line 56.
TooMany(us) == Len(us) > MaxURLs

\* func checkError: panics when it is given an error.
checkError(err) == IF err = "nil" THEN "ok" ELSE "panic"

\* r.Body.Close() reads what is left of a body that was not read to its end;
\* it returns the error of that read.
BodyClose(b) == IF b.kind = "closeerr" THEN "unexpected EOF" ELSE "nil"

\* func closeReqBody
closeReqBody(b) == checkError(BodyClose(b))

\* ioutil.ReadAll returns when the client has sent its body or has ended its
\* sending (the read then returns an error).
BodyArrives(r) == body[r].kind # "stall" \/ cancelled[r]

ReadValidateBeforeGate(r) ==
    /\ \/ /\ hpc[r] = "new"
          /\ body[r].kind = "badjson" \/ TooMany(body[r].urls)
          /\ outcome' = [outcome EXCEPT ![r] = "error"]
          /\ hpc' = [hpc EXCEPT ![r] = "done"]
       \/ /\ hpc[r] = "read"
          /\ BodyArrives(r)
          /\ IF body[r].kind \in {"readerr", "stall"}
             THEN /\ outcome' = [outcome EXCEPT ![r] = "400"]
                  /\ hpc' = [hpc EXCEPT ![r] = "ret"]
             ELSE IF closeReqBody(body[r]) = "panic"
             THEN /\ outcome' = outcome
                  /\ hpc' = [hpc EXCEPT ![r] = "ret"]
             ELSE /\ outcome' = outcome
                  /\ hpc' = [hpc EXCEPT ![r] = "spawn"]
    /\ UNCHANGED <<body, result, reqSemaphore, acquired, released, cancelled>>
    /\ UNCHANGED batchVars
    /\ UNCHANGED gateVars

\* Lines 47-62. ioutil.ReadAll: 400 on a read error (also the one a client
\* gets that ends its sending before it sent its body). closeReqBody: a panic when
\* the body cannot be closed; the handler is left without an answer, its
\* deferred function still to run. json.Unmarshal and the length check:
\* setClientError (404 and the error text) on a decoding error or on too many
\* urls. Otherwise the handler goes on to build the batch.
ReadValidate(r) ==
    /\ hpc[r] = "read"
    /\ BodyArrives(r)
    /\ IF body[r].kind \in {"readerr", "stall"}
       THEN /\ outcome' = [outcome EXCEPT ![r] = "400"]
            /\ hpc' = [hpc EXCEPT ![r] = "ret"]
       ELSE IF closeReqBody(body[r]) = "panic"
       THEN /\ outcome' = outcome
            /\ hpc' = [hpc EXCEPT ![r] = "ret"]
       ELSE IF body[r].kind = "badjson" \/ TooMany(body[r].urls)
       THEN /\ outcome' = [outcome EXCEPT ![r] = "error"]
            /\ hpc' = [hpc EXCEPT ![r] = "ret"]
       ELSE /\ outcome' = outcome
            /\ hpc' = [hpc EXCEPT ![r] = "spawn"]
    /\ UNCHANGED <<body, result, reqSemaphore, acquired, released, cancelled>>
    /\ UNCHANGED batchVars
    /\ UNCHANGED gateVars

JobPtrShared(n, i) == n

JobPtrNext(n, i) == (i % n) + 1

\* The Job the i-th fetcher gets a pointer to: `job` is declared inside the
\* loop body, so every iteration has its own Job.
JobPtr(n, i) == i

\* Lines 64-82: the channels, wg.Add(len(urls)), one Job and one fetchURL
\* goroutine per url, and the goroutine that waits for wg.
Spawn(r) ==
    /\ hpc[r] = "spawn"
    /\ LET us == body[r].urls
           n  == Len(us)
       IN  /\ sem' = [sem EXCEPT ![r] = 0]
           /\ wg' = [wg EXCEPT ![r] = n]
           /\ jobs' = [jobs EXCEPT ![r] = [i \in 1..n |-> [URL |-> us[i], Status |-> 0]]]
           /\ jobOf' = [jobOf EXCEPT ![r] = [i \in 1..n |-> JobPtr(n, i)]]
           /\ fpc' = [fpc EXCEPT ![r] = [i \in 1..n |-> "wait"]]
           /\ calls' = [calls EXCEPT ![r] = [i \in 1..n |-> 0]]
           /\ signal' = [signal EXCEPT ![r] = [i \in 1..n |-> "none"]]
    /\ wpc' = [wpc EXCEPT ![r] = "wait"]
    /\ hpc' = [hpc EXCEPT ![r] = "select"]
    /\ UNCHANGED <<body, outcome, result, reqSemaphore, acquired, released, cancelled>>
    /\ UNCHANGED gateVars

SelectErrShared(r, i) ==
    /\ hpc[r] = "select"
    /\ \E q \in Reqs :
          /\ i \in Fetchers(q)
          /\ fpc[q][i] = "err"
          /\ fpc' = [fpc EXCEPT ![q][i] = "rel"]
          /\ signal' = [signal EXCEPT ![q][i] = "error"]
    /\ outcome' = [outcome EXCEPT ![r] = "error"]
    /\ hpc' = [hpc EXCEPT ![r] = "ret"]
    /\ UNCHANGED <<body, result, reqSemaphore, acquired, released, cancelled>>
    /\ UNCHANGED <<jobs, jobOf, calls, sem, wg, wpc>>
    /\ UNCHANGED gateVars

\* case err := <-errChan: the rendezvous with the send of fetcher i (line 127
\* or 132). r.Context().Done() only returns the context's channel; then
\* setClientError answers 404 with the error text and the handler returns.
SelectErr(r, i) ==
    /\ hpc[r] = "select"
    /\ fpc[r][i] = "err"
    /\ fpc' = [fpc EXCEPT ![r][i] = "rel"]
    /\ signal' = [signal EXCEPT ![r][i] = "error"]
    /\ outcome' = [outcome EXCEPT ![r] = "error"]
    /\ hpc' = [hpc EXCEPT ![r] = "ret"]
    /\ UNCHANGED <<body, result, reqSemaphore, acquired, released, cancelled>>
    /\ UNCHANGED <<jobs, jobOf, calls, sem, wg, wpc>>
    /\ UNCHANGED gateVars

\* case <-finChan: the rendezvous with the send of line 81; the handler
\* answers 200 and encodes jobs.
SelectFin(r) ==
    /\ hpc[r] = "select"
    /\ wpc[r] = "send"
    /\ wpc' = [wpc EXCEPT ![r] = "exit"]
    /\ outcome' = [outcome EXCEPT ![r] = "success"]
    /\ result' = [result EXCEPT ![r] = jobs[r]]
    /\ hpc' = [hpc EXCEPT ![r] = "ret"]
    /\ UNCHANGED <<body, reqSemaphore, acquired, released, cancelled>>
    /\ UNCHANGED <<jobs, jobOf, fpc, calls, signal, sem, wg>>
    /\ UNCHANGED gateVars

\* The handler is in a write of its answer that the client does not take:
\* the error text or the encoded Jobs do not fit the buffers and the client
\* keeps the connection without reading. The write has no deadline (line 98)
\* and the request's context plays no part in it: a client that has ended
\* its sending, so that r.Context() is cancelled, still blocks the write.
AnswerBlocked(r) == outcome[r] \in {"error", "success"} /\ ~body[r].reads

ReturnNoDefer(r) ==
    /\ hpc[r] = "ret"
    /\ ~AnswerBlocked(r)
    /\ IF outcome[r] = "success"
       THEN /\ reqSemaphore' = reqSemaphore - 1
            /\ released' = [released EXCEPT ![r] = @ + 1]
       ELSE UNCHANGED <<reqSemaphore, released>>
    /\ hpc' = [hpc EXCEPT ![r] = "done"]
    /\ UNCHANGED <<body, outcome, result, acquired, cancelled>>
    /\ UNCHANGED batchVars
    /\ UNCHANGED gateVars

\* The handler is left, by a return or by a panic of checkError: the deferred
\* <-reqSemaphore runs. The request's context is still what it was.
Return(r) ==
    /\ hpc[r] = "ret"
    /\ ~AnswerBlocked(r)
    /\ reqSemaphore' = reqSemaphore - 1
    /\ released' = [released EXCEPT ![r] = @ + 1]
    /\ hpc' = [hpc EXCEPT ![r] = "done"]
    /\ UNCHANGED <<body, outcome, result, acquired, cancelled>>
    /\ UNCHANGED batchVars
    /\ UNCHANGED gateVars

\* net/http cancels the request's context once the handler has returned to
\* it (or has panicked).
ServerCancel(r) ==
    /\ hpc[r] = "done"
    /\ ~cancelled[r]
    /\ cancelled' = [cancelled EXCEPT ![r] = TRUE]
    /\ UNCHANGED <<body, hpc, outcome, result, reqSemaphore, acquired, released>>
    /\ UNCHANGED batchVars
    /\ UNCHANGED gateVars

\* The client ends its sending while its request is being handled (it closes
\* the connection, or only its own direction of it): net/http reads the end
\* and cancels r.Context().
ClientCancel(r) ==
    /\ hpc[r] \in {"read", "spawn", "select", "ret"}
    /\ ~cancelled[r]
    /\ cancelled' = [cancelled EXCEPT ![r] = TRUE]
    /\ UNCHANGED <<body, hpc, outcome, result, reqSemaphore, acquired, released>>
    /\ UNCHANGED batchVars
    /\ UNCHANGED gateVars

\* ------------------------------------------------------------------ waiter
WaiterWakeEarly(r) ==
    /\ wpc[r] = "wait"
    /\ wg[r] <= 1
    /\ wpc' = [wpc EXCEPT ![r] = "send"]
    /\ UNCHANGED <<body, hpc, outcome, result, reqSemaphore, acquired, released, cancelled>>
    /\ UNCHANGED <<jobs, jobOf, fpc, calls, signal, sem, wg>>
    /\ UNCHANGED gateVars

\* wg.Wait() returns when the counter is zero.
WaiterWake(r) ==
    /\ wpc[r] = "wait"
    /\ wg[r] = 0
    /\ wpc' = [wpc EXCEPT ![r] = "send"]
    /\ UNCHANGED <<body, hpc, outcome, result, reqSemaphore, acquired, released, cancelled>>
    /\ UNCHANGED <<jobs, jobOf, fpc, calls, signal, sem, wg>>
    /\ UNCHANGED gateVars

\* ----------------------------------------------------------------- fetchURL
SemHasRoomOffByOne(r) == sem[r] <= MaxSimultaneousConnectionsPerRequest

\* sem <- struct{}{} blocks while the channel is full.
SemHasRoom(r) == sem[r] < MaxSimultaneousConnectionsPerRequest

FetchAcquireDoneOnError(r, i) ==
    /\ fpc[r][i] = "wait"
    /\ SemHasRoom(r)
    /\ sem' = [sem EXCEPT ![r] = @ + 1]
    /\ IF NewRequestFails(jobs[r][jobOf[r][i]].URL)
       THEN /\ fpc' = [fpc EXCEPT ![r][i] = "err"]
            /\ wg' = [wg EXCEPT ![r] = @ - 1]
       ELSE /\ fpc' = [fpc EXCEPT ![r][i] = "do"]
            /\ wg' = wg
    /\ UNCHANGED <<body, hpc, outcome, result, reqSemaphore, acquired, released, cancelled>>
    /\ UNCHANGED <<jobs, jobOf, calls, signal, wpc>>
    /\ UNCHANGED gateVars

\* Lines 120-129: the slot is taken, the release is deferred, the request is
\* built; a url that does not parse goes to the send on errChan.
FetchAcquire(r, i) ==
    /\ fpc[r][i] = "wait"
    /\ SemHasRoom(r)
    /\ sem' = [sem EXCEPT ![r] = @ + 1]
    /\ fpc' = [fpc EXCEPT ![r][i] =
                 IF NewRequestFails(jobs[r][jobOf[r][i]].URL) THEN "err" ELSE "do"]
    /\ UNCHANGED <<body, hpc, outcome, result, reqSemaphore, acquired, released, cancelled>>
    /\ UNCHANGED <<jobs, jobOf, calls, signal, wg, wpc>>
    /\ UNCHANGED gateVars

\* client.Do(req.WithContext(ctx)) is entered: with a context that is already
\* cancelled it returns the context's error at once; otherwise the request
\* goes out.
FetchDo(r, i) ==
    /\ fpc[r][i] = "do"
    /\ calls' = [calls EXCEPT ![r][i] = @ + 1]
    /\ fpc' = [fpc EXCEPT ![r][i] = IF cancelled[r] THEN "err" ELSE "call"]
    /\ UNCHANGED <<body, hpc, outcome, result, reqSemaphore, acquired, released, cancelled>>
    /\ UNCHANGED <<jobs, jobOf, signal, sem, wg, wpc>>
    /\ UNCHANGED gateVars

\* client.Do returns (lines 130-138): an error (network failure, the timeout
\* of FetchURLTimeOut, the cancelled context), or a response, and then
\* job.Status = res.StatusCode. A context that is cancelled during the call
\* does not decide which: the transport takes the response or the
\* cancellation, whichever it sees first.
FetchDoReturn(r, i) ==
    /\ fpc[r][i] = "call"
    /\ \E ok \in BOOLEAN :
          IF ok
          THEN /\ LET j == jobOf[r][i]
                  IN  jobs' = [jobs EXCEPT ![r][j].Status = RemoteStatus(jobs[r][j].URL)]
               /\ fpc' = [fpc EXCEPT ![r][i] = "wrote"]
          ELSE /\ jobs' = jobs
               /\ fpc' = [fpc EXCEPT ![r][i] = "err"]
    /\ UNCHANGED <<body, hpc, outcome, result, reqSemaphore, acquired, released, cancelled>>
    /\ UNCHANGED <<jobOf, calls, signal, sem, wg, wpc>>
    /\ UNCHANGED gateVars

FetchDoneForgotten(r, i) ==
    /\ fpc[r][i] = "wrote"
    /\ signal' = [signal EXCEPT ![r][i] = "done"]
    /\ fpc' = [fpc EXCEPT ![r][i] = "rel"]
    /\ UNCHANGED <<body, hpc, outcome, result, reqSemaphore, acquired, released, cancelled>>
    /\ UNCHANGED <<jobs, jobOf, calls, sem, wg, wpc>>
    /\ UNCHANGED gateVars

\* wg.Done()
FetchDone(r, i) ==
    /\ fpc[r][i] = "wrote"
    /\ wg' = [wg EXCEPT ![r] = @ - 1]
    /\ signal' = [signal EXCEPT ![r][i] = "done"]
    /\ fpc' = [fpc EXCEPT ![r][i] = "rel"]
    /\ UNCHANGED <<body, hpc, outcome, result, reqSemaphore, acquired, released, cancelled>>
    /\ UNCHANGED <<jobs, jobOf, calls, sem, wpc>>
    /\ UNCHANGED gateVars

\* The deferred <-sem.
FetchRelease(r, i) ==
    /\ fpc[r][i] = "rel"
    /\ sem' = [sem EXCEPT ![r] = @ - 1]
    /\ fpc' = [fpc EXCEPT ![r][i] = "exit"]
    /\ UNCHANGED <<body, hpc, outcome, result, reqSemaphore, acquired, released, cancelled>>
    /\ UNCHANGED <<jobs, jobOf, calls, signal, wg, wpc>>
    /\ UNCHANGED gateVars

\* ------------------------------------------------------------ specification
HandlerStep ==
    \E r \in Reqs :
        \/ Acquire(r)
        \/ ReadValidate(r)
        \/ Spawn(r)
        \/ SelectFin(r)
        \/ Return(r)
        \/ ServerCancel(r)
        \/ WaiterWake(r)
        \/ \E i \in Fetchers(r) : SelectErr(r, i)

FetcherStep ==
    \E r \in Reqs : \E i \in Fetchers(r) :
        \/ FetchAcquire(r, i)
        \/ FetchDo(r, i)
        \/ FetchDoReturn(r, i)
        \/ FetchDone(r, i)
        \/ FetchRelease(r, i)

CancelStep == \E r \in Reqs : ClientCancel(r)

Next ==
    \/ \E r \in Reqs : Acquire(r)
    \/ \E r \in Reqs : ReadValidate(r)
    \/ \E r \in Reqs : Spawn(r)
    \/ \E r \in Reqs : \E i \in Fetchers(r) : SelectErr(r, i)
    \/ \E r \in Reqs : SelectFin(r)
    \/ \E r \in Reqs : Return(r)
    \/ \E r \in Reqs : ServerCancel(r)
    \/ \E r \in Reqs : WaiterWake(r)
    \/ \E r \in Reqs : \E i \in Fetchers(r) : FetchAcquire(r, i)
    \/ \E r \in Reqs : \E i \in Fetchers(r) : FetchDo(r, i)
    \/ \E r \in Reqs : \E i \in Fetchers(r) : FetchDoReturn(r, i)
    \/ \E r \in Reqs : \E i \in Fetchers(r) : FetchDone(r, i)
    \/ \E r \in Reqs : \E i \in Fetchers(r) : FetchRelease(r, i)
    \/ \E r \in Reqs : ClientCancel(r)

Spec == Init /\ [][Next]_vars

\* Large batches, same program.
SpecFan == InitFan /\ [][Next]_vars

\* Two batches at once, same program.
SpecPair == InitPair /\ [][Next]_vars

\* The goroutines are scheduled fairly and every client.Do returns (it is
\* bounded by FetchURLTimeOut). Nothing makes the client act: it is free
\* never to end its sending, and a handler that waits for its client (BodyArrives,
\* AnswerBlocked) has no step to take.
FairSpecFan == SpecFan /\ WF_vars(HandlerStep) /\ WF_vars(FetcherStep)

FairSpec == Spec /\ WF_vars(HandlerStep) /\ WF_vars(FetcherStep)

\* --------------------------------------------------------- the admission gate
\* SpecGate: many requests at once. The handlers are counted by position:
\* gWaiting of them are at the send of line 40, gRunning of them are between
\* that send and the deferred receive of line 41.
InitGate == InitWith({<<>>})

\* A request comes in: net/http starts a goroutine that runs the handler.
GateArrive ==
    /\ gWaiting + gRunning < MaxArrivals
    /\ gWaiting' = gWaiting + 1
    /\ UNCHANGED <<gRunning, gStalled, gAdmitted, reqSemaphore>>
    /\ UNCHANGED <<body, hpc, outcome, result, acquired, released, cancelled>>
    /\ UNCHANGED batchVars

\* reqSemaphore <- struct{}{} of one of the waiting handlers.
GateAcquire ==
    /\ gWaiting > 0
    /\ GateHasRoom
    /\ reqSemaphore' = reqSemaphore + 1
    /\ gWaiting' = gWaiting - 1
    /\ gRunning' = gRunning + 1
    /\ gAdmitted' = (gAdmitted + 1) % 2
    /\ gStalled' = gStalled
    /\ UNCHANGED <<body, hpc, outcome, result, acquired, released, cancelled>>
    /\ UNCHANGED batchVars

\* The client of one of the running handlers stalls for good: it keeps the
\* connection open and sends no body, or does not read its answer. The
\* server sets no deadline (line 98), so the handler waits for ever, between
\* line 40 and its deferred receive.
GateStall ==
    /\ gStalled < gRunning
    /\ gStalled' = gStalled + 1
    /\ UNCHANGED <<gWaiting, gRunning, gAdmitted, reqSemaphore>>
    /\ UNCHANGED <<body, hpc, outcome, result, acquired, released, cancelled>>
    /\ UNCHANGED batchVars

GateReleaseLeakWhenFull ==
    /\ gRunning > gStalled
    /\ gRunning' = gRunning - 1
    /\ reqSemaphore' = IF reqSemaphore = MaxSimultaneousRequests
                       THEN reqSemaphore
                       ELSE reqSemaphore - 1
    /\ UNCHANGED <<gWaiting, gStalled, gAdmitted>>
    /\ UNCHANGED <<body, hpc, outcome, result, acquired, released, cancelled>>
    /\ UNCHANGED batchVars

\* One of the running handlers that does not wait for its client returns:
\* the deferred <-reqSemaphore.
GateRelease ==
    /\ gRunning > gStalled
    /\ reqSemaphore' = reqSemaphore - 1
    /\ gRunning' = gRunning - 1
    /\ UNCHANGED <<gWaiting, gStalled, gAdmitted>>
    /\ UNCHANGED <<body, hpc, outcome, result, acquired, released, cancelled>>
    /\ UNCHANGED batchVars

NextGate == GateArrive \/ GateAcquire \/ GateStall \/ GateRelease

SpecGate == InitGate /\ [][NextGate]_vars

\* Every admitted handler that does not wait for its client returns (its
\* calls are bounded by FetchURLTimeOut) and a handler whose send can proceed
\* is scheduled.
FairSpecGate == SpecGate /\ WF_vars(GateAcquire) /\ WF_vars(GateRelease)

\* ------------------------------------------------------------------- claims
Holders(r) == {i \in Fetchers(r) : HoldsSlot(r, i)}

Holding(r, i) == r \in Reqs /\ i \in Fetchers(r) /\ HoldsSlot(r, i)

Exited(r, i) == r \in Reqs /\ i \in Fetchers(r) /\ fpc[r][i] = "exit"

\* C1: a batch run answers once; the answer is the success answer only if
\* every fetcher of the batch wrote its Job's status and called wg.Done(), and
\* never when a fetcher of the batch has an error to report.
C1_Outcome ==
    \A r \in Reqs :
        /\ outcome[r] = "success" =>
               \A i \in Fetchers(r) : signal[r][i] = "done" /\ jobs[r][i].Status # 0
        /\ (\E i \in Fetchers(r) : fpc[r][i] = "err" \/ signal[r][i] = "error") =>
               outcome[r] # "success"
        /\ hpc[r] \in {"new", "read", "spawn", "select"} => outcome[r] = "none"
        /\ hpc[r] \in {"ret", "done"} => outcome[r] # "none"

C1_OutcomeStable == \A r \in Reqs : outcome[r] # "none" => outcome'[r] = outcome[r]

C1_AllOrNothing == []C1_Outcome /\ [][C1_OutcomeStable]_vars

\* C2: at most MaxSimultaneousConnectionsPerRequest fetchers of a batch are
\* between taking and giving back the slot of urlSemaphore.
C2_FanOutCap ==
    \A r \in Reqs : Cardinality(Holders(r)) <= MaxSimultaneousConnectionsPerRequest

\* All four slots are taken and a fifth fetcher waits for one.
C2_Witness ==
    \E r \in Reqs :
        /\ Cardinality(Holders(r)) = MaxSimultaneousConnectionsPerRequest
        /\ \E i \in Fetchers(r) : fpc[r][i] = "wait"

\* C3: at most MaxSimultaneousRequests handlers are between the send on
\* reqSemaphore and the deferred receive.
C3_AdmissionCap == gRunning <= MaxSimultaneousRequests

\* The gate is full and a further request waits at it.
C3_Witness == gRunning = MaxSimultaneousRequests /\ gWaiting > 0

\* C4: every fetcher that took a slot of urlSemaphore gives it back.
C4_SlotReleased ==
    \A r \in ReqIds : \A i \in 1..MaxLen : Holding(r, i) ~> Exited(r, i)

\* C5: a handler receives from reqSemaphore once for its one send, on every
\* way it ends, and never without having sent.
C5_GateReleasedOnce ==
    /\ \A r \in Reqs :
          /\ acquired[r] <= 1
          /\ released[r] <= acquired[r]
          /\ hpc[r] = "new" => acquired[r] = 0
          /\ hpc[r] \in {"read", "spawn", "select", "ret"} =>
                 acquired[r] = 1 /\ released[r] = 0
          /\ hpc[r] = "done" => acquired[r] = 1 /\ released[r] = 1
    /\ reqSemaphore = Cardinality({r \in Reqs : acquired[r] - released[r] = 1}) + gRunning

\* A handler has returned after a fetch error and has given its slot back.
C5_Witness ==
    \E r \in Reqs :
        /\ hpc[r] = "done"
        /\ released[r] = 1
        /\ reqSemaphore = 0
        /\ \E i \in Fetchers(r) : signal[r][i] = "error"

\* C6: once the request's context is cancelled while a fetcher of the batch
\* has not completed, the batch run ends with the error answer. Stated for a
\* client that takes its answer, which leaves aside a handler that waits in
\* the write of its answer.
C6_CancelAborts ==
    \A r \in ReqIds :
        (r \in Reqs /\ cancelled[r] /\ body[r].reads
              /\ \E i \in Fetchers(r) : signal[r][i] # "done")
            ~> (r \in Reqs /\ outcome[r] = "error")

\* C7 as stated: every admitted batch run ends and returns.
C7_BatchTerminates ==
    \A r \in ReqIds : (r \in Reqs /\ hpc[r] # "new") ~> (r \in Reqs /\ hpc[r] = "done")

\* The client of r does not keep the handler waiting: it delivers its body
\* or ends its sending, and it takes its answer.
ClientServes(r) == (body[r].kind # "stall" \/ cancelled[r]) /\ body[r].reads

\* C7, amended: every admitted batch run whose client delivers its body or
\* ends its sending, and takes its answer, ends and returns.
C7_BatchTerminatesServed ==
    \A r \in ReqIds :
        (r \in Reqs /\ hpc[r] # "new" /\ ClientServes(r))
            ~> (r \in Reqs /\ hpc[r] = "done")

\* A batch of more urls than slots has ended with the success answer.
C7_Witness ==
    \E r \in Reqs :
        /\ hpc[r] = "done"
        /\ outcome[r] = "success"
        /\ Len(body[r].urls) > MaxSimultaneousConnectionsPerRequest

\* C8: the success answer lists the urls of the input in the input's order,
\* each with the status its own fetcher got.
C8_OrderPreserved ==
    \A r \in Reqs :
        outcome[r] = "success" =>
            /\ Len(result[r]) = Len(body[r].urls)
            /\ \A i \in 1..Len(result[r]) :
                  /\ result[r][i].URL = body[r].urls[i]
                  /\ result[r][i].Status = RemoteStatus(body[r].urls[i])

\* A success answer with two different urls and two different statuses.
C8_Witness ==
    \E r \in Reqs :
        /\ outcome[r] = "success"
        /\ Len(result[r]) >= 2
        /\ result[r][1].URL # result[r][2].URL
        /\ result[r][1].Status # result[r][2].Status

\* C9: a batch of more than MaxURLs urls is answered with an error, and no
\* Job, no fetcher, no slot of urlSemaphore and no call exists for it.
C9_OversizeRejected ==
    \A r \in Reqs :
        (body[r].kind = "list" /\ Len(body[r].urls) > MaxURLs) =>
            /\ hpc[r] \notin {"spawn", "select"}
            /\ jobs[r] = <<>>
            /\ fpc[r] = <<>>
            /\ calls[r] = <<>>
            /\ sem[r] = 0
            /\ wpc[r] = "none"
            /\ hpc[r] \in {"ret", "done"} => outcome[r] = "error"

\* The batch of MaxURLs + 1 urls has been answered.
C9_Witness ==
    \E r \in Reqs :
        /\ Len(body[r].urls) = MaxURLs + 1
        /\ hpc[r] = "done"
        /\ outcome[r] = "error"

\* C10 as stated: when a handler waits at the full gate, a waiting handler
\* gets a slot.
C10_GateLiveness ==
    \A b \in {0, 1} :
        (gWaiting > 0 /\ reqSemaphore = MaxSimultaneousRequests /\ gAdmitted = b)
            ~> (gAdmitted # b)

\* C10, amended: when a handler waits at the full gate, a waiting handler
\* gets a slot, unless every handler that holds a slot waits for ever for its
\* client.
C10_GateLivenessServed ==
    \A b \in {0, 1} :
        (gWaiting > 0 /\ reqSemaphore = MaxSimultaneousRequests /\ gAdmitted = b)
            ~> (gAdmitted # b \/ gStalled = MaxSimultaneousRequests)

\* Every request beyond the capacity waits at the full gate, and all but one
\* of the handlers that hold a slot wait for ever for their clients.
C10_Witness ==
    /\ reqSemaphore = MaxSimultaneousRequests
    /\ gWaiting = MaxArrivals - MaxSimultaneousRequests
    /\ gStalled = MaxSimultaneousRequests - 1

\* The handler of r has received a fetcher's error from errChan.
ErrorObserved(r) == \E i \in Fetchers(r) : signal[r][i] = "error"

\* C11: once the handler has received a fetcher's error, the other fetchers
\* are cancelled: none that has not finished its call gets a response (and
\* goes on to write its Job's status).
C11_NoLateResponse ==
    \A r \in Reqs : \A i \in Fetchers(r) :
        (ErrorObserved(r) /\ i \in DOMAIN fpc'[r] /\ fpc[r][i] \in {"wait", "do", "call"})
            => fpc'[r][i] # "wrote"

C11_ErrorCancelsOthers == [][C11_NoLateResponse]_vars

\* C12: every goroutine started for a batch ends: each fetcher and the
\* goroutine that waits for wg. Stated for a client that takes its answer,
\* which leaves aside a handler that waits in the write of its answer.
C12_NoLeakedGoroutines ==
    \A r \in ReqIds :
        (r \in Reqs /\ wpc[r] # "none" /\ body[r].reads)
            ~> (r \in Reqs /\ wpc[r] = "exit" /\ \A i \in Fetchers(r) : fpc[r][i] = "exit")

\* The body does not decode, or it holds more than MaxURLs urls: the handler
\* rejects it at lines 55-62.
Rejected(r) == body[r].kind = "badjson" \/ (body[r].kind = "list" /\ Len(body[r].urls) > MaxURLs)

\* C13 as stated: a batch is decoded and bounds-checked before it takes a slot
\* of reqSemaphore, so a malformed or oversized batch never holds one.
C13_ValidatedBeforeAdmitted == \A r \in Reqs : Rejected(r) => acquired[r] = 0

\* C13, amended: a batch run takes its slot of reqSemaphore first and is
\* decoded and bounds-checked while it holds the slot; a malformed or
\* oversized batch holds a slot until its handler returns.
C13_AdmittedBeforeValidated ==
    \A r \in Reqs :
        /\ hpc[r] = "read" => acquired[r] - released[r] = 1
        /\ outcome[r] # "none" => acquired[r] = 1
        /\ (Rejected(r) /\ hpc[r] = "ret") => acquired[r] - released[r] = 1

\* An oversized batch has been rejected and its handler still holds the slot.
C13_Witness ==
    \E r \in Reqs :
        /\ Len(body[r].urls) > MaxURLs
        /\ hpc[r] = "ret"
        /\ outcome[r] = "error"
        /\ acquired[r] = 1
        /\ released[r] = 0

\* The handler of r is between the send on reqSemaphore and the deferred
\* receive.
HoldsGate(r) == acquired[r] - released[r] = 1

\* The fetcher holds a slot of urlSemaphore and is not yet at its deferred
\* receive: its call or the report of its result is still to come.
AtWork(r, i) == fpc[r][i] \in {"do", "call", "wrote", "err"}

\* C14: every fetcher that holds a slot of urlSemaphore belongs to a batch run
\* that holds a slot of reqSemaphore. Stated for the fetchers that are still
\* at work, which leaves aside a fetcher that only has its deferred receive
\* left to run.
C14_GateHeldWhileFetching ==
    \A r \in Reqs : \A i \in Fetchers(r) : AtWork(r, i) => HoldsGate(r)

\* A fetcher of r is at its send on errChan.
ErrorPending(r) == \E i \in Fetchers(r) : fpc[r][i] = "err"

\* The goroutine of lines 79-82 is at its send on finChan.
FinObservable(r) == wpc[r] = "send"

\* C15: while a fetcher's error is pending, the completion signal of the same
\* batch is not observable and the answer is not the success answer; the
\* answer given then is the error.
C15_NoTie ==
    \A r \in Reqs :
        ErrorPending(r) => ~FinObservable(r) /\ wpc[r] # "exit" /\ outcome[r] # "success"

C15_ErrorAnswered ==
    \A r \in Reqs :
        (ErrorPending(r) /\ outcome[r] = "none" /\ outcome'[r] # "none")
            => outcome'[r] = "error"

C15_ErrorWins == []C15_NoTie /\ [][C15_ErrorAnswered]_vars

\* One fetcher's error is pending, every other fetcher of the batch has called
\* wg.Done(), and the handler is at the select.
C15_Witness ==
    \E r \in Reqs :
        /\ hpc[r] = "select"
        /\ ErrorPending(r)
        /\ Cardinality(Fetchers(r)) >= 2
        /\ wg[r] = 1

\* C16: a Job's status is written at most once, by the fetcher of that Job and
\* after its call returned a response; a fetcher that fails leaves the status
\* at its zero value and never calls wg.Done().
C16_OwnFetcherWrote ==
    \A r \in Reqs : \A j \in DOMAIN jobs[r] :
        /\ jobs[r][j].Status # 0 =>
              /\ fpc[r][j] \in {"wrote", "rel", "exit"}
              /\ calls[r][j] = 1
              /\ signal[r][j] # "error"
              /\ jobs[r][j].Status = RemoteStatus(jobs[r][j].URL)
        /\ (fpc[r][j] = "err" \/ signal[r][j] = "error") =>
              jobs[r][j].Status = 0 /\ signal[r][j] # "done"
        /\ signal[r][j] = "done" => jobs[r][j].Status # 0

C16_WrittenOnce ==
    \A r \in Reqs : \A j \in DOMAIN jobs[r] :
        jobs'[r][j] # jobs[r][j] =>
            /\ jobs[r][j].Status = 0
            /\ fpc[r][j] = "call"
            /\ fpc'[r][j] = "wrote"

C16_StatusWriteOnce == []C16_OwnFetcherWrote /\ [][C16_WrittenOnce]_vars

\* One Job has its status and the fetcher of another Job of the batch failed.
C16_Witness ==
    \E r \in Reqs : \E j, k \in DOMAIN jobs[r] :
        /\ jobs[r][j].Status # 0
        /\ signal[r][j] = "done"
        /\ signal[r][k] = "error"
        /\ jobs[r][k].Status = 0
        /\ fpc[r][k] = "exit"

\* C17: a fetcher makes at most one call, makes it while it holds a slot of
\* urlSemaphore, and makes none for a url that does not parse.
C17_CallCount ==
    \A r \in Reqs : \A i \in Fetchers(r) :
        /\ calls[r][i] <= 1
        /\ fpc[r][i] = "wait" => calls[r][i] = 0
        /\ jobs[r][i].URL \in BadURLs => calls[r][i] = 0

C17_CallUnderSlot ==
    \A r \in Reqs : \A i \in Fetchers(r) :
        calls'[r][i] # calls[r][i] => HoldsSlot(r, i) /\ HoldsSlot(r, i)'

C17_OneCallUnderSlot == []C17_CallCount /\ [][C17_CallUnderSlot]_vars

\* The fetcher of a url that does not parse has reported its error without a
\* call, and another fetcher of the batch has made its call.
C17_Witness ==
    \E r \in Reqs : \E i, k \in Fetchers(r) :
        /\ jobs[r][i].URL \in BadURLs
        /\ signal[r][i] = "error"
        /\ calls[r][i] = 0
        /\ calls[r][k] = 1

\* C18: each batch has its own urlSemaphore, wg, errChan and finChan: the
\* slots of a batch are taken by its own fetchers only, its counter counts its
\* own fetchers only, it answers with an error only for an error of one of its
\* own fetchers, and it answers success once all its own fetchers completed,
\* whatever the other batch does.
C18_Independent ==
    \A r \in Reqs :
        /\ sem[r] = Cardinality(Holders(r))
        /\ wg[r] = Cardinality({i \in Fetchers(r) : signal[r][i] # "done"})
        /\ (outcome[r] = "error" /\ Fetchers(r) # {}) => ErrorObserved(r)
        /\ outcome[r] = "success" => \A i \in Fetchers(r) : signal[r][i] = "done"
        /\ (hpc[r] = "done" /\ body[r].kind = "list" /\ ~ErrorObserved(r))
               => outcome[r] = "success"

\* Two batches were handled at once; one ended with the error answer while
\* the other, whose fetchers all completed, ended with the success answer.
C18_Witness ==
    \E r, q \in Reqs :
        /\ r # q
        /\ hpc[r] = "done" /\ outcome[r] = "error" /\ ErrorObserved(r)
        /\ hpc[q] = "done" /\ outcome[q] = "success" /\ Fetchers(q) # {}
        /\ \E i \in Fetchers(r) : fpc[r][i] = "err"

\* The fetcher has still to assign job.Status, or may still come to it.
CanStillWrite(r, i) == fpc[r][i] \in {"wait", "do", "call"}

\* C19: when the handler reads the Jobs for the success answer, every fetcher
\* of the batch has written its status and none can still write; the Jobs do
\* not change after they were read.
C19_ReadAfterWrites ==
    \A r \in Reqs :
        (outcome[r] = "none" /\ outcome'[r] = "success") =>
            \A i \in Fetchers(r) : ~CanStillWrite(r, i) /\ jobs[r][i].Status # 0

C19_NoWriteAfterRead ==
    \A r \in Reqs :
        outcome[r] = "success" =>
            /\ result[r] = jobs[r]
            /\ \A i \in Fetchers(r) : ~CanStillWrite(r, i)

C19_NoRace == []C19_NoWriteAfterRead /\ [][C19_ReadAfterWrites]_vars

\* The handler has read the Jobs while a fetcher of the batch is still
\* running: it has its deferred receive left.
C19_Witness ==
    \E r \in Reqs :
        /\ hpc[r] = "ret"
        /\ outcome[r] = "success"
        /\ Len(result[r]) >= 2
        /\ \E i \in Fetchers(r) : fpc[r][i] = "rel"

\* C20: a batch of no urls starts no fetcher and takes no slot of
\* urlSemaphore, is answered with success and an empty Job list, and its
\* handler gives the slot of reqSemaphore back.
C20_EmptyBatch ==
    \A r \in Reqs :
        (body[r].kind = "list" /\ body[r].urls = <<>>) =>
            /\ fpc[r] = <<>> /\ jobs[r] = <<>> /\ calls[r] = <<>> /\ sem[r] = 0
            /\ outcome[r] \in {"none", "success"}
            /\ hpc[r] \in {"ret", "done"} => outcome[r] = "success" /\ result[r] = <<>>
            /\ hpc[r] = "done" => released[r] = 1 /\ ~HoldsGate(r)

\* The batch of no urls has been answered and its handler has returned.
C20_Witness ==
    \E r \in Reqs :
        /\ body[r].kind = "list" /\ body[r].urls = <<>>
        /\ hpc[r] = "done"
        /\ outcome[r] = "success"
        /\ wpc[r] = "exit"

====
